---------------------------- MODULE Spec2Model ----------------------------
(***************************************************************************)
(* Model of tensorforce/models/model.py: the base Model class.             *)
(*                                                                         *)
(* A distributed worker owns a local parameter set and shares, with the    *)
(* other workers, the global holder's parameter set and the two global     *)
(* counters (timestep, episode).  Model.update runs one combined step      *)
(* (session.run) whose operations are the members of a tf.group: the       *)
(* gradient computation, apply_gradients on the global parameters,         *)
(* update_local (the assigns of the global to the local parameters) and    *)
(* the counter increments.  A tf.group orders its members only by their    *)
(* data dependencies, so every member is one action here and the steps of  *)
(* different workers interleave.                                           *)
(***************************************************************************)
EXTENDS Integers, Sequences, FiniteSets, TLC

(* ------------------------------ bounds -------------------------------- *)
\* longest batch handed to update
MaxBatch == 2
\* update calls per model in the sequential runs
MaxUpdates == 2
\* update calls per model in the runs that save and restore checkpoints
MaxCkptUpdates == 1

(* ----------------------------- constants ------------------------------ *)
\* initializer=0 of the global timestep variable
InitialTimestep == 0
\* initializer=0 of the global episode variable
InitialEpisode == 0

\* the global holder and the workers that share it
GlobalHolder == 0
Workers == {1, 2}
Models == Workers \cup {GlobalHolder}
\* positions of the parameter set (local and global sets pair by index)
Positions == {1, 2}
\* parameter values; the optimizer's arithmetic is taken modulo their number
PVals == {0, 1}
PMod == Cardinality(PVals)
ParamSets == [Positions -> PVals]
ZeroParams == [i \in Positions |-> 0]
\* the values the variables' initializers may give a parameter set
InitParamSets == {ZeroParams, [i \in Positions |-> i % PMod]}

\* one row of experience: a reward and a terminal flag
Rewards == {1}
Rows == [reward : Rewards, terminal : BOOLEAN]
RECURSIVE SeqsUpTo(_)
SeqsUpTo(n) == IF n = 0 THEN {<< >>}
               ELSE SeqsUpTo(n - 1) \cup [1 .. n -> Rows]
Batches == SeqsUpTo(MaxBatch)
NoBatch == << >>

VARIABLES
    config,             \* the configuration the model is constructed from
    checkpoints,        \* the checkpoint files on disk, by identifier
    distributed,        \* self.distributed
    status,             \* per model: "absent", "ok" (constructed), "failed"
    optimizer,          \* per model: self.optimizer is set
    variables,          \* per model: its parameter set (self.variables)
    global_timestep,    \* the global holder's timestep variable
    episode,            \* the global holder's episode variable
    timestep,           \* per model: self.timestep, the call counter
    session,            \* per model: self.session is set
    writer,             \* per model: self.writer is set
    last_summary_step,  \* per model: self.last_summary_step
    phase,              \* per model: "idle" or "running" (inside update)
    feed,               \* per model: the batch fed to the running step
    fetches,            \* per model: the fetch list of the running step
    pending,            \* per model: operations of the step not yet run
    grads,              \* per model: the gradients the step computed
    returned,           \* per model: what the last call returned
    lists,              \* the list objects, by reference: their contents
    internal,           \* per model: the list its caller holds (a reference)
    hist                \* call counts that bound the run, and observations of it

vars == << config, checkpoints, distributed, status, optimizer, variables, global_timestep, episode,
           timestep, session, writer, last_summary_step, phase, feed, fetches,
           pending, grads, returned, lists, internal, hist >>


(* --------------------------- pure functions --------------------------- *)
Range(f) == {f[k] : k \in DOMAIN f}

\* tf.shape(self.reward)[0]: the number of experience rows of the batch
BatchSize(batch) == Len(batch)

\* tf.count_nonzero(self.terminal): the number of rows with terminal = true
CountNonzero(batch) == Cardinality({k \in DOMAIN batch : batch[k].terminal})

RECURSIVE RewardSum(_)
RewardSum(batch) == IF batch = << >> THEN 0
                    ELSE Head(batch).reward + RewardSum(Tail(batch))

\* optimizer.compute_gradients(loss, var_list=self.variables): the gradient of
\* the model's own loss at the values of its own parameters.  The loss is the
\* subclass's; here the gradient at position i is params[i] + sum of rewards.
Gradient(params, batch) ==
    [i \in Positions |-> (params[i] + RewardSum(batch)) % PMod]

\* the optimizer's update rule for one (gradient, variable) pair
ApplyGradient(v, g) == (v + PMod - g) % PMod

\* how often a fetch occurs in a fetch list
Occurrences(list, f) == Cardinality({k \in DOMAIN list : list[k] = f})

\* Model.update, lines 286-290: the fetch list, with the episode increment
\* appended once per terminal row in distributed mode
RECURSIVE TerminalFetches(_)
TerminalFetches(batch) ==
    IF batch = << >> THEN << >>
    ELSE (IF Head(batch).terminal THEN << "increment_global_episode" >> ELSE << >>)
         \o TerminalFetches(Tail(batch))

UpdateFetches(dist, batch) ==
    << "optimize", "loss", "loss_per_instance" >>
    \o (IF dist THEN TerminalFetches(batch) ELSE << >>)

\* (mutant) the increment runs once per listing in the fetch list
EpisodeDeltaPerListing(list, batch) ==
    Occurrences(list, "increment_global_episode") * CountNonzero(batch)

\* session.run runs every fetched operation once, however often it is listed:
\* the amount the fetched increment_global_episode op adds in one step
EpisodeDelta(list, batch) ==
    IF "increment_global_episode" \in Range(list) THEN CountNonzero(batch) ELSE 0

\* (mutant) the counter is moved back by the batch size
TimestepRewound(cur, batch) == cur - BatchSize(batch)

\* (mutant) the counter is advanced by one per update call
TimestepPlusOne(cur, batch) == cur + 1

\* (mutant) the counter is assigned the batch size instead of advanced by it
TimestepAssigned(cur, batch) == BatchSize(batch)

\* self.global_timestep.assign_add(tf.shape(self.reward)[0])
TimestepAfter(cur, batch) == cur + BatchSize(batch)

\* the state-changing operations one step runs for a fetch list: the members
\* of the optimize group (and the gradient computation they depend on), and
\* the episode increment
OpsOf(dist, list) ==
    (IF "optimize" \in Range(list)
     THEN {"grad", "apply"} \cup (IF dist THEN {"update_local", "timestep"} ELSE {})
     ELSE {})
    \cup (IF "increment_global_episode" \in Range(list) THEN {"episode"} ELSE {})


(* ------------------------------ summaries ----------------------------- *)
\* config.tf_summary_interval as configured in the model
SummaryInterval == 1
\* get_action calls per model
MaxCalls == 2
\* self.last_summary_step = -float('inf'), and the attribute not yet created
NegInf == -1
Unset == -2

\* self.timestep > self.last_summary_step + self.summary_interval, where
\* -inf + interval = -inf lies below every timestep
ExceedsInterval(ts, last, interval) ==
    IF last = NegInf THEN TRUE ELSE ts > last + interval

\* Model.should_write_summaries
should_write_summaries(m) ==
    writer[m] /\ ExceedsInterval(timestep[m], last_summary_step[m], SummaryInterval)

\* Model._maybe_append_tf_summaries
maybe_append_tf_summaries(m, list) ==
    IF should_write_summaries(m) THEN list \o << "tf_summaries" >> ELSE list

\* SummarySessionWrapper, after the step: when the summaries were fetched they
\* are written and the last-written marker becomes the current timestep
MarkerAfterRun(m, list) ==
    IF "tf_summaries" \in Range(list) THEN timestep[m] ELSE last_summary_step[m]

(* ------------------------------- update ------------------------------- *)
\* (mutant) update never returns early
NeverReturnsEarly(opt) == FALSE

\* Model.update, line 283: the early return of a model without optimizer
ReturnsEarly(opt) == ~opt

\* the parameter set the optimize step applies gradients to: the global
\* holder's for a distributed worker, the model's own otherwise
ApplyTarget(m) == IF distributed THEN GlobalHolder ELSE m

Idle(m) == status[m] = "ok" /\ phase[m] = "idle"

\* what a call returned to its caller: the call and its result
Ret(call, result) == [call |-> call, result |-> result]

\* update calls that run a step, per model: the run's caller makes hist.budget
UpdateLimit == hist.budget

\* (mutant) the workers' local parameters are one set, that of worker 1
ResyncTargetShared(m) == 1

\* Model.__init__, line 125: update_local assigns to self.variables, the
\* parameters in the worker's own 'local' scope
ResyncTarget(m) == m

\* (mutant) the loss is differentiated at the global parameters
GradientAtGlobal(m) == GlobalHolder

\* Model.__init__, line 122: compute_gradients(loss, var_list=self.variables),
\* the gradients of the model's own loss at its own parameters
GradientSource(m) == m

\* the variables and tensors the operations of model m's step read and write
StepState(m) == [variables |-> variables, global_timestep |-> global_timestep,
                 episode |-> episode, grads |-> grads[m]]

\* the effect of one operation of model m's step, fed batch, on those values:
\*   grad          the gradients, at the current values of m's own parameters
\*   apply         optimizer.apply_gradients: the i-th gradient updates the
\*                 i-th parameter of the target set
\*   update_local  v1.assign(v2) for each pair of local and global parameter
\*   timestep      self.global_timestep.assign_add(tf.shape(self.reward)[0])
\*   episode       self.global_episode.assign_add(tf.count_nonzero(self.terminal))
RunOp(op, m, st, batch, list) ==
    CASE op = "grad" ->
           [st EXCEPT !.grads = Gradient(st.variables[GradientSource(m)], batch)]
      [] op = "apply" ->
           [st EXCEPT !.variables[ApplyTarget(m)] =
                          [i \in Positions |-> ApplyGradient(@[i], st.grads[i])],
                      !.grads = ZeroParams]
      [] op = "update_local" ->
           [st EXCEPT !.variables[ResyncTarget(m)] =
                          [i \in Positions |-> st.variables[GlobalHolder][i]]]
      [] op = "timestep" ->
           [st EXCEPT !.global_timestep = TimestepAfter(@, batch)]
      [] op = "episode" ->
           [st EXCEPT !.episode = @ + EpisodeDelta(list, batch)]

\* (mutant) apply_gradients also waits until no other worker's step is running
ReadyWhenAlone(op, left) ==
    op = "apply" => ("grad" \notin left
                     /\ Cardinality({o \in Workers : phase[o] = "running"}) <= 1)

\* an operation can run when the operations it takes its input from have run:
\* apply_gradients takes the gradients; nothing else orders the operations
Ready(op, left) == op = "apply" => "grad" \notin left

\* Model.update up to the start of the combined step (session.run)
UpdateBegin(m, batch) ==
    /\ Idle(m)
    /\ IF ReturnsEarly(optimizer[m])
       THEN /\ returned' = [returned EXCEPT ![m] = Ret("update", "None")]
            /\ UNCHANGED << phase, feed, fetches, pending, hist >>
       ELSE IF ~session[m]
       THEN \* self.session is None: session.run raises
            /\ returned' = [returned EXCEPT ![m] = Ret("update", "error")]
            /\ UNCHANGED << phase, feed, fetches, pending, hist >>
       ELSE /\ hist.updates[m] < UpdateLimit
            /\ phase' = [phase EXCEPT ![m] = "running"]
            /\ feed' = [feed EXCEPT ![m] = batch]
            /\ fetches' = [fetches EXCEPT ![m] =
                   maybe_append_tf_summaries(m, UpdateFetches(distributed, batch))]
            /\ pending' = [pending EXCEPT ![m] = OpsOf(distributed, fetches'[m])]
            /\ returned' = [returned EXCEPT ![m] = Ret("update", "pending")]
            /\ hist' = [hist EXCEPT
                   !.updates[m] = @ + 1,
                   !.rows = @ + Len(batch),
                   !.terms = @ + CountNonzero(batch),
                   !.summarised[m] = "tf_summaries" \in Range(fetches'[m]),
                   !.contended[m] = FALSE,
                   !.overlap = @ \/ (\E o \in Models \ {m} : phase[o] = "running")]
    /\ UNCHANGED << lists, internal, config, checkpoints, distributed, status, optimizer, variables,
                    global_timestep, episode, timestep, session, writer,
                    last_summary_step, grads >>

\* one operation of the running step of model m
Op(m, op) ==
    /\ op \in pending[m]
    /\ Ready(op, pending[m])
    /\ LET st == RunOp(op, m, StepState(m), feed[m], fetches[m]) IN
       /\ variables' = st.variables
       /\ global_timestep' = st.global_timestep
       /\ episode' = st.episode
       /\ grads' = [grads EXCEPT ![m] = st.grads]
    /\ pending' = [pending EXCEPT ![m] = @ \ {op}]
    /\ hist' = IF op = "apply" /\ distributed
               THEN [hist EXCEPT !.contended = [o \in Models |->
                        IF o # m /\ phase[o] = "running" THEN TRUE ELSE @[o]]]
               ELSE hist
    /\ UNCHANGED << lists, internal, config, checkpoints, distributed, status, optimizer, timestep,
                    session, writer, last_summary_step, phase, feed, fetches,
                    returned >>

OpGrad(m) == Op(m, "grad")
OpApply(m) == Op(m, "apply")
OpUpdateLocal(m) == Op(m, "update_local")
OpTimestep(m) == Op(m, "timestep")
OpEpisode(m) == Op(m, "episode")

\* the step is complete: every operation of the running step has run
Completed(m) == phase[m] = "running" /\ pending[m] = {}

\* session.run returns; Model.update returns loss and loss_per_instance
UpdateEnd(m) ==
    /\ Completed(m)
    /\ phase' = [phase EXCEPT ![m] = "idle"]
    /\ last_summary_step' = [last_summary_step EXCEPT ![m] = MarkerAfterRun(m, fetches[m])]
    /\ feed' = [feed EXCEPT ![m] = NoBatch]
    /\ fetches' = [fetches EXCEPT ![m] = << >>]
    /\ returned' = [returned EXCEPT ![m] = Ret("update", "loss")]
    /\ hist' = [hist EXCEPT !.done[m] = @ + 1]
    /\ UNCHANGED << lists, internal, config, checkpoints, distributed, status, optimizer, variables,
                    global_timestep, episode, timestep, session, writer, pending,
                    grads >>

\* the orders in which a step may run the operations in ops
RECURSIVE Orders(_)
Orders(ops) ==
    IF ops = {} THEN {<< >>}
    ELSE UNION {{<< op >> \o rest : rest \in Orders(ops \ {op})} :
                   op \in {o \in ops : Ready(o, ops)}}

\* The counter increments read and write nothing but their own counter, which
\* no other operation of the step touches: where they run makes no difference
\* to a step that runs alone, so its orders are those of the other operations,
\* followed by the increments.
SerialOrders(ops) ==
    {order \o (IF "timestep" \in ops THEN << "timestep" >> ELSE << >>)
           \o (IF "episode" \in ops THEN << "episode" >> ELSE << >>) :
        order \in Orders(ops \ {"timestep", "episode"})}

RECURSIVE RunAll(_, _, _, _, _)
RunAll(order, m, st, batch, list) ==
    IF order = << >> THEN st
    ELSE RunAll(Tail(order), m, RunOp(Head(order), m, st, batch, list), batch, list)

\* Model.update called by a caller whose model runs its step alone: the whole
\* call, the step running its operations in one of the orders it allows
update(m, batch) ==
    /\ Idle(m)
    /\ IF ReturnsEarly(optimizer[m])
       THEN /\ returned' = [returned EXCEPT ![m] = Ret("update", "None")]
            /\ UNCHANGED << variables, global_timestep, episode,
                            last_summary_step, hist >>
       ELSE IF ~session[m]
       THEN /\ returned' = [returned EXCEPT ![m] = Ret("update", "error")]
            /\ UNCHANGED << variables, global_timestep, episode,
                            last_summary_step, hist >>
       ELSE /\ hist.updates[m] < UpdateLimit
            /\ LET list == maybe_append_tf_summaries(m, UpdateFetches(distributed, batch)) IN
               \E order \in SerialOrders(OpsOf(distributed, list)) :
                  LET st == RunAll(order, m, StepState(m), batch, list) IN
                  /\ variables' = st.variables
                  /\ global_timestep' = st.global_timestep
                  /\ episode' = st.episode
                  /\ last_summary_step' =
                         [last_summary_step EXCEPT ![m] = MarkerAfterRun(m, list)]
                  /\ hist' = [hist EXCEPT
                         !.updates[m] = @ + 1,
                         !.done[m] = @ + 1,
                         !.rows = @ + Len(batch),
                         !.terms = @ + CountNonzero(batch),
                         !.summarised[m] = "tf_summaries" \in Range(list)]
            /\ returned' = [returned EXCEPT ![m] = Ret("update", "loss")]
    /\ UNCHANGED << lists, internal, config, checkpoints, distributed, status, optimizer, timestep,
                    session, writer, phase, feed, fetches, pending, grads >>

(* ------------------------- the other operations ----------------------- *)
\* (mutant) the call counter keeps its value
CallCountKept(n) == n

\* Model.get_action, line 253: self.timestep += 1
CallCount(n) == n + 1

\* Model.get_action: the call counter is advanced before the forward pass runs
get_action(m) ==
    /\ Idle(m)
    /\ timestep[m] < MaxCalls
    /\ timestep' = [timestep EXCEPT ![m] = CallCount(@)]
    /\ returned' = [returned EXCEPT ![m] =
                       Ret("get_action", IF session[m] THEN "action" ELSE "error")]
    /\ hist' = [hist EXCEPT !.saved.acted = (hist.saves > 0),
                            !.acts[m] = @ + 1]
    /\ UNCHANGED << lists, internal, config, checkpoints, distributed, status, optimizer, variables,
                    global_timestep, episode, session, writer, last_summary_step,
                    phase, feed, fetches, pending, grads >>

\* Model.__init__, lines 148 and 151: self._write_each_reward is set exactly
\* when summary output is configured
write_each_reward(m) == config.tf_summary

\* Model.write_episode_reward_summary: emits a summary when per-episode
\* recording is enabled and a writer exists, and nothing otherwise
write_episode_reward_summary(m) ==
    /\ Idle(m)
    /\ returned' = [returned EXCEPT ![m] =
           Ret("write_episode_reward_summary",
               IF write_each_reward(m) /\ writer[m]
               THEN (IF session[m] THEN "summary" ELSE "error")
               ELSE "None")]
    /\ UNCHANGED << lists, internal, config, checkpoints, distributed, status,
                    optimizer, variables, global_timestep, episode, timestep,
                    session, writer, last_summary_step, phase, feed, fetches,
                    pending, grads, hist >>

\* internal slots a model class declares, and mutations its caller makes
MaxInternals == 2
MaxMutations == 2
InternalVals == {0, 1}

\* the list objects: reference m is self.internal_inits of model m, and
\* CallerRef(m) the list the caller of model m keeps its internal states in
CallerRef(m) == m + Cardinality(Models)
Refs == Models \cup {CallerRef(m) : m \in Models}

\* (mutant) reset hands out self.internal_inits itself
ResetReturnsAlias(m) == m

\* Model.reset, line 250: list(self.internal_inits) is a new list object
ResetReturns(m) == CallerRef(m)

\* Model.reset: returns a copy of the initial internal states
reset(m) ==
    /\ Idle(m)
    /\ returned' = [returned EXCEPT ![m] = Ret("reset", "internals")]
    /\ lists' = [lists EXCEPT ![ResetReturns(m)] = lists[m]]
    /\ internal' = [internal EXCEPT ![m] = ResetReturns(m)]
    /\ UNCHANGED << config, checkpoints, distributed, status, optimizer, variables, global_timestep,
                    episode, timestep, session, writer, last_summary_step, phase,
                    feed, fetches, pending, grads, hist >>

\* the caller changes the list it holds: assigns an entry, appends one, or
\* removes the last
Mutate(m) ==
    /\ Idle(m)
    /\ hist.muts < MaxMutations
    /\ LET l == lists[internal[m]] IN
       \E new \in {[l EXCEPT ![i] = v] : i \in DOMAIN l, v \in InternalVals}
                    \cup {Append(l, v) : v \in {w \in InternalVals : Len(l) <= MaxInternals}}
                    \cup {SubSeq(l, 1, Len(l) - 1) : k \in {j \in {1} : Len(l) > 0}} :
          /\ new # l
          /\ lists' = [lists EXCEPT ![internal[m]] = new]
    /\ hist' = [hist EXCEPT !.muts = @ + 1]
    /\ UNCHANGED << internal, config, checkpoints, distributed, status, optimizer,
                    variables, global_timestep, episode, timestep, session, writer,
                    last_summary_step, phase, feed, fetches, pending, grads, returned >>

\* Model.add_tf_writer: attaches a writer; _init_tf_writer resets the marker
add_tf_writer(m) ==
    /\ Idle(m)
    /\ writer' = [writer EXCEPT ![m] = TRUE]
    /\ last_summary_step' = [last_summary_step EXCEPT ![m] = NegInf]
    /\ returned' = [returned EXCEPT ![m] = Ret("add_tf_writer", "None")]
    /\ UNCHANGED << lists, internal, config, checkpoints, distributed, status, optimizer, variables, global_timestep,
                    episode, timestep, session, phase, feed, fetches, pending,
                    grads, hist >>

\* (mutant) the assertion is not made
SessionAssertOff(s) == TRUE

\* Model.set_session, line 241: assert self.session is None
SessionUnset(s) == ~s

\* Model.set_session: asserts that no session is set yet, and sets it
set_session(m) ==
    /\ Idle(m)
    /\ IF SessionUnset(session[m])
       THEN /\ session' = [session EXCEPT ![m] = TRUE]
            /\ returned' = [returned EXCEPT ![m] = Ret("set_session", "None")]
            /\ hist' = [hist EXCEPT !.assigned[m] = @ + 1]
       ELSE /\ returned' = [returned EXCEPT ![m] = Ret("set_session", "AssertionError")]
            /\ UNCHANGED << session, hist >>
    /\ UNCHANGED << lists, internal, config, checkpoints, distributed, status, optimizer, variables, global_timestep,
                    episode, timestep, writer, last_summary_step, phase, feed,
                    fetches, pending, grads >>

(* ----------------------------- checkpoints ---------------------------- *)
\* save_model calls in a run
MaxSaves == 2

\* a path is a string, here the sequence of its characters
Paths == {<< "m" >>}

Digits == << "0", "1", "2", "3", "4", "5", "6", "7", "8", "9" >>

\* the decimal digits of a natural number
RECURSIVE Str(_)
Str(n) == IF n < 10 THEN << Digits[n + 1] >>
          ELSE Str(n \div 10) \o << Digits[(n % 10) + 1] >>

\* (mutant) the step is appended whether or not a global step is asked for
CheckpointIdAlwaysSuffixed(path, use_global_step, step) ==
    path \o << "-" >> \o Str(step)

\* tf.train.Saver.save(session, path, global_step): the checkpoint is written
\* at path-<global_step>, or at path when no global step is given
CheckpointId(path, use_global_step, step) ==
    IF use_global_step THEN path \o << "-" >> \o Str(step) ELSE path

\* (mutant) the suffix is the shared global timestep counter
SharedGlobalStep(m) == global_timestep

\* Model.save_model, line 334: global_step=self.timestep, the call counter
SaveGlobalStep(m) == timestep[m]

\* the identifiers a checkpoint can be written at or loaded from
CkptIds == Paths \cup {CheckpointId(p, TRUE, n) : p \in Paths, n \in 0 .. MaxCalls}

NoCkpt == [present |-> FALSE, global_timestep |-> 0, episode |-> 0,
           global |-> ZeroParams, local |-> ZeroParams]

\* what the model's Saver (line 143, all variables of the model's graph) writes
Snapshot(m) == [present |-> TRUE, global_timestep |-> global_timestep,
                episode |-> episode, global |-> variables[GlobalHolder],
                local |-> variables[m]]

\* the last successful save_model call: its arguments, the identifier it wrote
\* and whether get_action has been called since
NoSave == [path |-> << >>, ugs |-> FALSE, id |-> << >>, acted |-> FALSE]

\* Model.save_model
save_model(m, path, use_global_step) ==
    /\ Idle(m)
    /\ hist.saves < MaxSaves
    /\ LET id == CheckpointId(path, use_global_step, SaveGlobalStep(m)) IN
       IF session[m]
       THEN /\ checkpoints' = [c \in DOMAIN checkpoints |->
                                  IF c = id THEN Snapshot(m) ELSE checkpoints[c]]
            /\ returned' = [returned EXCEPT ![m] = Ret("save_model", "None")]
            /\ hist' = [hist EXCEPT !.saves = @ + 1,
                                    !.saved = [path |-> path, ugs |-> use_global_step,
                                               id |-> id, acted |-> FALSE]]
       ELSE /\ returned' = [returned EXCEPT ![m] = Ret("save_model", "error")]
            /\ hist' = [hist EXCEPT !.saves = @ + 1]
            /\ UNCHANGED checkpoints
    /\ UNCHANGED << lists, internal, config, distributed, status, optimizer, variables,
                    global_timestep, episode, timestep, session, writer,
                    last_summary_step, phase, feed, fetches, pending, grads >>

\* Model.load_model: saver.restore assigns every saved variable; a path with
\* no checkpoint raises and restores nothing
load_model(m, path) ==
    /\ Idle(m)
    /\ IF session[m] /\ checkpoints[path].present
       THEN /\ returned' = [returned EXCEPT ![m] = Ret("load_model", "None")]
            /\ variables' = [o \in Models |->
                                IF o = m THEN checkpoints[path].local
                                ELSE IF distributed /\ o = GlobalHolder
                                THEN checkpoints[path].global
                                ELSE variables[o]]
            /\ global_timestep' = IF distributed
                                  THEN checkpoints[path].global_timestep
                                  ELSE global_timestep
            /\ episode' = IF distributed THEN checkpoints[path].episode ELSE episode
       ELSE /\ returned' = [returned EXCEPT ![m] = Ret("load_model", "error")]
            /\ UNCHANGED << variables, global_timestep, episode >>
    /\ UNCHANGED << lists, internal, config, checkpoints, distributed, status, optimizer, timestep,
                    session, writer, last_summary_step, phase, feed, fetches,
                    pending, grads, hist >>

(* --------------------------- specifications --------------------------- *)
NoHist == [budget |-> 0,
           updates |-> [m \in Models |-> 0],
           done |-> [m \in Models |-> 0],
           rows |-> 0,
           terms |-> 0,
           contended |-> [m \in Models |-> FALSE],
           overlap |-> FALSE,
           summarised |-> [m \in Models |-> FALSE],
           saves |-> 0,
           saved |-> NoSave,
           declared |-> [m \in Models |-> << >>],
           acts |-> [m \in Models |-> 0],
           assigned |-> [m \in Models |-> 0],
           initialized |-> [m \in Models |-> 0],
           muts |-> 0]

\* the configuration of a distributed worker with an optimizer, one discrete
\* action, no summary output, in a class that allows both kinds of action
WorkerConfig ==
    [distributed |-> TRUE, global_model |-> FALSE, optimizer |-> TRUE,
     tf_summary |-> FALSE, session |-> FALSE, actions |-> << "discrete" >>,
     allows_discrete_actions |-> TRUE, allows_continuous_actions |-> TRUE]

\* fields every freshly constructed model has
Fresh ==
    /\ checkpoints = [c \in CkptIds |-> NoCkpt]
    /\ global_timestep = InitialTimestep
    /\ episode = InitialEpisode
    /\ timestep = [m \in Models |-> 0]
    /\ writer = [m \in Models |-> FALSE]
    /\ last_summary_step = [m \in Models |-> Unset]
    /\ phase = [m \in Models |-> "idle"]
    /\ feed = [m \in Models |-> NoBatch]
    /\ fetches = [m \in Models |-> << >>]
    /\ pending = [m \in Models |-> {}]
    /\ grads = [m \in Models |-> ZeroParams]
    /\ returned = [m \in Models |-> Ret("__init__", "None")]
    /\ internal = [m \in Models |-> CallerRef(m)]

\* two distributed workers and their global holder, constructed, the
\* variables initialized and the workers' sessions set by the runner; each
\* worker performs one update
InitAsync ==
    /\ Fresh
    /\ hist = [NoHist EXCEPT !.budget = 1]
    /\ config = WorkerConfig
    /\ distributed = TRUE
    /\ status = [m \in Models |-> "ok"]
    /\ optimizer = [m \in Models |-> m # GlobalHolder]
    /\ session = [m \in Models |-> m # GlobalHolder]
    /\ variables \in [Models -> InitParamSets]
    /\ lists = [r \in Refs |-> << >>]

UpdateStep(m) ==
    \/ OpGrad(m)
    \/ OpApply(m)
    \/ OpUpdateLocal(m)
    \/ OpTimestep(m)
    \/ OpEpisode(m)
    \/ UpdateEnd(m)

NextAsync ==
    \E w \in Workers :
        \/ \E batch \in Batches : UpdateBegin(w, batch)
        \/ UpdateStep(w)

SpecAsync == InitAsync /\ [][NextAsync]_vars

\* each worker is a process of its own, and its session runs the operations
\* of a step it was handed: a step that can continue does continue
FairAsync == \A w \in Workers : WF_vars(UpdateStep(w))

\* the steps of the fair runs are fed one row, terminal or not
OneRowBatches == {batch \in Batches : Len(batch) = 1}

NextAsyncFair ==
    \E w \in Workers :
        \/ \E batch \in OneRowBatches : UpdateBegin(w, batch)
        \/ UpdateStep(w)

SpecAsyncFair == InitAsync /\ [][NextAsyncFair]_vars /\ FairAsync


\* one model driven sequentially by its caller: a distributed worker with its
\* global holder, its session set by the runner, or a standalone model, which
\* creates its session itself and may have no optimizer
Constructed ==
    /\ Fresh
    /\ distributed \in BOOLEAN
    /\ status = [m \in Models |-> IF m = 1 \/ (distributed /\ m = GlobalHolder)
                                   THEN "ok" ELSE "absent"]
    /\ optimizer \in [Models -> BOOLEAN]
    /\ optimizer[GlobalHolder] = FALSE /\ optimizer[2] = FALSE
    /\ distributed => optimizer[1]
    /\ session = [m \in Models |-> m = 1]
    /\ variables \in [Models -> InitParamSets]
    /\ \A m \in Models : status[m] = "absent" => variables[m] = ZeroParams
    /\ config = [WorkerConfig EXCEPT !.distributed = distributed,
                                     !.optimizer = optimizer[1]]

\* the batches of the runs that save and restore: those without terminal rows
CkptBatches == {batch \in Batches : CountNonzero(batch) = 0}

\* the calls of a caller that also saves and restores checkpoints
CkptCalls ==
    \/ \E m \in Workers, batch \in CkptBatches : update(m, batch)
    \/ \E m \in Workers : get_action(m)
    \/ \E m \in Workers : reset(m)
    \/ \E m \in Workers, path \in Paths, ugs \in BOOLEAN : save_model(m, path, ugs)
    \/ \E m \in Workers, path \in CkptIds : load_model(m, path)

NextCkpt == CkptCalls

InitCkpt ==
    /\ Constructed
    /\ lists = [r \in Refs |-> << >>]
    /\ hist = [NoHist EXCEPT !.budget = MaxCkptUpdates]

SpecCkpt == InitCkpt /\ [][NextCkpt]_vars

\* the calls of the caller on its model; on the global holder, update only
Calls ==
    \/ \E m \in Models, batch \in Batches : update(m, batch)
    \/ \E m \in Workers : get_action(m)
    \/ \E m \in Workers : reset(m)
    \/ \E m \in Workers : add_tf_writer(m)

NextSeq == Calls

InitSeq ==
    /\ Constructed
    /\ lists = [r \in Refs |-> << >>]
    /\ hist = [NoHist EXCEPT !.budget = MaxUpdates]

SpecSeq == InitSeq /\ [][NextSeq]_vars

\* every call a caller can make on its model, with one update
AllCalls ==
    \/ \E m \in Workers, batch \in CkptBatches : update(m, batch)
    \/ \E m \in Workers : get_action(m)
    \/ \E m \in Workers : reset(m)
    \/ \E m \in Workers : add_tf_writer(m)
    \/ \E m \in Workers : write_episode_reward_summary(m)
    \/ \E m \in Workers, path \in Paths, ugs \in BOOLEAN : save_model(m, path, ugs)
    \/ \E m \in Workers, path \in CkptIds : load_model(m, path)

NextCalls == AllCalls

InitCalls ==
    /\ Constructed
    /\ lists = [r \in Refs |-> << >>]
    /\ hist = [NoHist EXCEPT !.budget = 1]

SpecCalls == InitCalls /\ [][NextCalls]_vars

\* two distributed workers and their global holder, each worker called by
\* its own caller, one call at a time
InitFrame == InitAsync

\* the runs of the two callers make two get_action and save_model calls
\* between them, and each worker one update
FewCalls == timestep[1] + timestep[2] + hist.saves < 2

FrameCalls(m) ==
    \/ \E batch \in CkptBatches : update(m, batch)
    \/ FewCalls /\ get_action(m)
    \/ reset(m)
    \/ FewCalls /\ \E path \in Paths, ugs \in BOOLEAN : save_model(m, path, ugs)

NextFrame == \E m \in Workers : FrameCalls(m)

SpecFrame == InitFrame /\ [][NextFrame]_vars

(* --------------------------- internal states -------------------------- *)
\* the initial internal states a model class declares (it appends them to
\* self.internal_inits when it builds its graph)
DeclaredLists == UNION {[1 .. n -> InternalVals] : n \in 0 .. MaxInternals}

\* a constructed model of a class that declares internal states
InitReset ==
    /\ Constructed
    /\ \E d \in DeclaredLists :
          /\ lists = [r \in Refs |->
                         IF r \in Models /\ status[r] = "ok" THEN d ELSE << >>]
          /\ hist = [NoHist EXCEPT !.budget = 1,
                                   !.declared = [m \in Models |-> d]]

\* the calls of a caller that keeps and changes the lists reset returns
NextReset ==
    \/ \E m \in Workers, batch \in Batches : update(m, batch)
    \/ \E m \in Workers : get_action(m)
    \/ \E m \in Workers : reset(m)
    \/ \E m \in Workers : Mutate(m)

SpecReset == InitReset /\ [][NextReset]_vars

(* ---------------------------- construction ---------------------------- *)
\* actions a configuration declares
MaxActions == 2

RECURSIVE ActionLists(_)
ActionLists(n) == IF n = 0 THEN {<< >>}
                  ELSE ActionLists(n - 1) \cup [1 .. n -> {"continuous", "discrete"}]

\* the configurations a model is constructed from (optimizer, tf_summary and
\* session: whether the entry is set rather than None), with the two flags
\* the model's class declares
Configs ==
    [distributed : BOOLEAN, global_model : BOOLEAN, optimizer : BOOLEAN,
     tf_summary : BOOLEAN, session : BOOLEAN, actions : ActionLists(MaxActions),
     allows_discrete_actions : BOOLEAN, allows_continuous_actions : BOOLEAN]

\* Model.__init__, lines 93-95: the configuration of the nested global holder
GlobalConfig(cfg) == [cfg EXCEPT !.optimizer = FALSE, !.global_model = TRUE]

\* (mutant) the kinds of action are not checked
NoActionError(cfg) == FALSE

\* create_tf_operations, lines 213-221: an action of a kind the class does not allow
ActionError(cfg) ==
    \E k \in DOMAIN cfg.actions :
        \/ cfg.actions[k] = "continuous" /\ ~cfg.allows_continuous_actions
        \/ cfg.actions[k] = "discrete" /\ ~cfg.allows_discrete_actions

\* (mutant) the assertion is not made
NoOptimizerAssert(cfg) == TRUE

\* Model.__init__, line 118:
\* assert self.optimizer or (not config.distributed or config.global_model)
OptimizerAssert(cfg) == cfg.optimizer \/ (~cfg.distributed \/ cfg.global_model)

\* the error of building one instance's own graph, in the order of the code:
\* the action check, the optimizer assertion, then line 147, which calls
\* _init_tf_writer with one argument more than it takes
OwnError(cfg) ==
    IF ActionError(cfg) THEN "TensorForceError"
    ELSE IF ~OptimizerAssert(cfg) THEN "AssertionError"
    ELSE IF cfg.tf_summary THEN "TypeError"
    ELSE "None"

\* a worker constructs its global holder before its own graph
Nested(cfg) == cfg.distributed /\ ~cfg.global_model

\* the error Model.__init__ raises for a configuration, "None" when it returns
InitError(cfg) ==
    IF ~cfg.distributed /\ (cfg.global_model \/ cfg.session) THEN "AssertionError"
    ELSE IF Nested(cfg) /\ OwnError(GlobalConfig(cfg)) # "None"
    THEN OwnError(GlobalConfig(cfg))
    ELSE OwnError(cfg)

\* the instance a configuration constructs: the global holder itself, or model 1
Target(cfg) == IF cfg.distributed /\ cfg.global_model THEN GlobalHolder ELSE 1

\* Model.__init__
Construct ==
    /\ \A m \in Models : status[m] = "absent"
    /\ LET err == InitError(config)
           built(m) == \/ m = Target(config) /\ err = "None"
                       \/ /\ m = GlobalHolder /\ Nested(config)
                          /\ OwnError(GlobalConfig(config)) = "None"
       IN
       /\ status' = [m \in Models |->
                        IF built(m) THEN "ok"
                        ELSE IF m = Target(config) THEN "failed" ELSE "absent"]
       /\ returned' = [returned EXCEPT ![Target(config)] = Ret("__init__", err)]
       /\ distributed' = config.distributed
       /\ optimizer' = [m \in Models |->
                           m = Target(config) /\ err = "None" /\ config.optimizer]
       /\ session' = [m \in Models |->
                         m = Target(config) /\ err = "None" /\ ~config.distributed]
       /\ variables' \in {v \in [Models -> InitParamSets] :
                              \A m \in Models : ~built(m) => v[m] = ZeroParams}
       /\ hist' = [hist EXCEPT
              !.assigned = [m \in Models |-> IF session'[m] THEN 1 ELSE 0],
              !.initialized = [m \in Models |-> IF session'[m] THEN 1 ELSE 0]]
    /\ UNCHANGED << lists, internal, config, checkpoints, global_timestep, episode, timestep, writer,
                    last_summary_step, phase, feed, fetches, pending, grads >>

\* before construction: a configuration, and no model
InitCtor ==
    /\ Fresh
    /\ hist = NoHist
    /\ config \in Configs
    /\ distributed = FALSE
    /\ status = [m \in Models |-> "absent"]
    /\ optimizer = [m \in Models |-> FALSE]
    /\ session = [m \in Models |-> FALSE]
    /\ variables = [m \in Models |-> ZeroParams]
    /\ lists = [r \in Refs |-> << >>]

\* construction, and then the runner's set_session calls on what was built
NextCtor ==
    \/ Construct
    \/ \E m \in Models : set_session(m)

SpecCtor == InitCtor /\ [][NextCtor]_vars

(* ------------------------------- claims ------------------------------- *)

\* C1: in distributed mode, whenever a worker's combined update step has
\* completed and no other worker wrote the global parameter set during the
\* step, every local parameter of the worker equals the global parameter at
\* the same position.
C1_LocalEqualsGlobalAfterStep ==
    \A w \in Workers :
        (Completed(w) /\ ~hist.contended[w])
            => \A i \in Positions : variables[w][i] = variables[GlobalHolder][i]

\* C2: two workers share one global holder; after each has performed exactly
\* one update, with batch sizes b1 and b2, the global timestep counter equals
\* its initial value plus b1 + b2, whatever the interleaving of the two steps.
C2_TimestepIsSumOfBatchSizes ==
    (\A w \in Workers : hist.done[w] = 1 /\ hist.updates[w] = 1 /\ phase[w] = "idle")
        => global_timestep = InitialTimestep + hist.rows

\* both workers have updated once, their steps overlapped, with batch sizes 1 and 2
C2_Witness ==
    /\ \A w \in Workers : hist.done[w] = 1 /\ hist.updates[w] = 1 /\ phase[w] = "idle"
    /\ hist.overlap
    /\ hist.rows = 3
    /\ global_timestep = InitialTimestep + 3


\* C3: for a distributed worker with an optimizer and no other writer, after
\* N sequential updates with batch sizes b_1..b_N the global timestep counter
\* equals its initial value plus the sum of the b_i (hist.rows sums the batch
\* sizes of the steps that ran).
C3_TimestepAdvancesByBatchSize ==
    (distributed /\ phase[1] = "idle")
        => global_timestep = InitialTimestep + hist.rows

\* two updates have completed, with batch sizes 1 and 2
C3_Witness ==
    /\ distributed /\ phase[1] = "idle" /\ hist.done[1] = 2
    /\ hist.rows = 3
    /\ global_timestep = InitialTimestep + 3

\* C4: for a distributed worker with an optimizer and no other writer, after
\* N sequential updates the global episode counter equals its initial value
\* plus the number of terminal rows over all batches, although update lists the
\* increment operation once per terminal row.
C4_EpisodeAdvancesByTerminalCount ==
    (distributed /\ phase[1] = "idle")
        => episode = InitialEpisode + hist.terms

\* two updates have completed, one with two terminal rows and one with one
C4_Witness ==
    /\ distributed /\ phase[1] = "idle" /\ hist.done[1] = 2
    /\ hist.terms = 3
    /\ episode = InitialEpisode + 3

\* C8: update adds the summary fetch to its execution step if and only if a
\* writer is configured and the timestep counter minus the timestep of the
\* last written summaries is at least the configured interval (always so on
\* the first update after a writer was attached).
C8_SummaryFetchedIffIntervalReached ==
    [][\A m \in Workers :
          hist'.updates[m] = hist.updates[m] + 1 =>
              (hist'.summarised[m]
                  <=> (writer[m] /\ (\/ last_summary_step[m] = NegInf
                                     \/ timestep[m] - last_summary_step[m]
                                            >= SummaryInterval)))]_vars

\* C10: update on a model without optimizer returns None and leaves the
\* parameters, both global counters, the call counter and the summary marker
\* unchanged, and starts no execution step, for every batch.
C10_UpdateWithoutOptimizerIsNoOp ==
    [][\A m \in Models :
          (~optimizer[m] /\ returned'[m].call = "update" /\ returned'[m] # returned[m])
              => /\ returned'[m].result = "None"
                 /\ UNCHANGED << variables, global_timestep, episode, timestep,
                                 last_summary_step, phase, pending, fetches,
                                 feed, grads >>]_vars

\* update was called on the global holder after the worker's own update had
\* advanced the counters, and on a standalone model without optimizer
C10_Witness ==
    \/ /\ returned[GlobalHolder] = Ret("update", "None")
       /\ hist.done[1] >= 1 /\ global_timestep > InitialTimestep
    \/ /\ ~distributed /\ ~optimizer[1]
       /\ returned[1] = Ret("update", "None") /\ timestep[1] >= 1


\* C5 (as claimed): no call of any worker ever makes the global timestep
\* counter smaller than it was.
C5_GlobalTimestepNeverDecreases ==
    [][global_timestep' >= global_timestep]_vars

\* C5 (amended): the global timestep counter never decreases in a get_action,
\* update, reset or save_model call; a step that decreases it is a successful
\* load_model, which sets it to the value stored in the checkpoint.
C5_DecreasesOnlyByLoad ==
    [][global_timestep' < global_timestep =>
          \E m \in Workers, path \in CkptIds :
              /\ load_model(m, path)
              /\ checkpoints[path].present
              /\ global_timestep' = checkpoints[path].global_timestep]_vars

\* a load_model has put the counter back below a value it had when saved
C5_Witness ==
    /\ returned[1] = Ret("load_model", "None")
    /\ \E id \in CkptIds : /\ checkpoints[id].present
                          /\ checkpoints[id].global_timestep > global_timestep

\* C6 (as claimed): two successive save_model calls on the same model with the
\* same path and use_global_step=true never write the same checkpoint
\* identifier, whatever happens between them.
C6_SuccessiveSavesNeverCollide ==
    [][\A m \in Workers, path \in Paths :
          (save_model(m, path, TRUE) /\ hist.saved.ugs /\ hist.saved.path = path)
              => hist'.saved.id # hist.saved.id]_vars

\* C6 (amended): two successive save_model calls on the same model with the
\* same path and use_global_step=true write different identifiers exactly
\* when get_action was called on the model between them; with no call or only
\* update calls between them the second save overwrites the first.
C6_SavesCollideUnlessActed ==
    [][\A m \in Workers, path \in Paths :
          (save_model(m, path, TRUE) /\ hist.saved.ugs /\ hist.saved.path = path)
              => (hist'.saved.id # hist.saved.id <=> hist.saved.acted)]_vars

\* two saves with a get_action between them left two checkpoints, and a third
\* identifier was never written
C6_Witness ==
    /\ hist.saves = 2 /\ hist.saved.ugs
    /\ checkpoints[CheckpointId(<< "m" >>, TRUE, 0)].present
    /\ checkpoints[CheckpointId(<< "m" >>, TRUE, 1)].present

\* C7 (as claimed): save_model(path) followed at once by load_model(path)
\* succeeds and leaves every parameter as it was before the save.
C7_SaveThenLoadSamePath ==
    [][\A m \in Workers, path \in Paths :
          (/\ returned[m] = Ret("save_model", "None")
           /\ hist.saved.path = path
           /\ load_model(m, path))
              => /\ returned'[m] = Ret("load_model", "None")
                 /\ variables' = variables]_vars

\* C7 (amended): save_model(path, use_global_step) followed at once by
\* load_model of the identifier written - path itself when use_global_step is
\* false, path-<timestep> when it is true (the default) - succeeds and leaves
\* every parameter and both counters as they were before the save.
C7_SaveThenLoadWrittenId ==
    [][\A m \in Workers, id \in CkptIds :
          (/\ returned[m] = Ret("save_model", "None")
           /\ id = (IF hist.saved.ugs
                    THEN hist.saved.path \o << "-" >> \o Str(timestep[m])
                    ELSE hist.saved.path)
           /\ load_model(m, id))
              => /\ returned'[m] = Ret("load_model", "None")
                 /\ variables' = variables
                 /\ global_timestep' = global_timestep
                 /\ episode' = episode]_vars

\* after an update, a save to the exact path and a load from it, the
\* parameters and the counter are those of the checkpoint
C7_Witness ==
    /\ returned[1] = Ret("load_model", "None")
    /\ hist.saves = 1 /\ ~hist.saved.ugs /\ hist.done[1] = 1
    /\ checkpoints[<< "m" >>].present
    /\ checkpoints[<< "m" >>].local = variables[1]
    /\ distributed => checkpoints[<< "m" >>].global_timestep = global_timestep


\* C9 (as claimed): construction fails whenever no optimizer is configured,
\* unless the instance is a global holder in distributed mode.
C9_FailsWithoutOptimizer ==
    (/\ status[Target(config)] # "absent"
     /\ ~config.optimizer
     /\ ~(config.distributed /\ config.global_model))
        => status[Target(config)] = "failed"

\* C9 (amended): construction fails whenever no optimizer is configured and
\* the instance is a distributed worker; a standalone model without optimizer
\* whose configuration is otherwise valid is constructed.
C9_WorkerFailsWithoutOptimizer ==
    /\ (/\ status[Target(config)] # "absent"
        /\ ~config.optimizer
        /\ config.distributed /\ ~config.global_model)
           => status[Target(config)] = "failed"
    /\ (/\ status[Target(config)] # "absent"
        /\ ~config.optimizer
        /\ ~config.distributed /\ ~config.global_model /\ ~config.session
        /\ ~config.tf_summary /\ ~ActionError(config))
           => /\ status[Target(config)] = "ok"
              /\ ~optimizer[Target(config)]

\* a worker without optimizer whose global holder was built: the worker's
\* own assertion failed
C9_Witness ==
    /\ config.distributed /\ ~config.global_model /\ ~config.optimizer
    /\ status[GlobalHolder] = "ok"
    /\ status[1] = "failed"
    /\ returned[1] = Ret("__init__", "AssertionError")


\* C11: whatever get_action, update and reset calls were made, and however
\* the caller changed a list reset returned, reset returns a list of the
\* declared number of internal slots whose i-th entry is the i-th declared
\* initial value.
C11_ResetReturnsDeclaredInits ==
    [][\A m \in Workers :
          reset(m) => /\ Len(lists'[internal'[m]]) = Len(hist.declared[m])
                      /\ \A i \in 1 .. Len(hist.declared[m]) :
                            lists'[internal'[m]][i] = hist.declared[m][i]]_vars

\* after the caller changed the list it held, reset gave it the declared
\* non-empty list again
C11_Witness ==
    /\ returned[1] = Ret("reset", "internals")
    /\ hist.muts = MaxMutations
    /\ timestep[1] > 0
    /\ Len(hist.declared[1]) = MaxInternals
    /\ lists[internal[1]] = hist.declared[1]


\* C12: the call counter of an instance equals the number of get_action
\* calls made on it: a get_action call adds exactly 1 to it, and update,
\* reset, save_model, load_model and write_episode_reward_summary leave it
\* unchanged.
C12_TimestepCountsGetAction ==
    [][\A m \in Workers :
          /\ timestep[m] = hist.acts[m]
          /\ timestep'[m] = hist'.acts[m]
          /\ timestep'[m] = timestep[m] + (IF get_action(m) THEN 1 ELSE 0)]_vars

\* every other call was made after a get_action, and the counter is the
\* number of get_action calls
C12_Witness ==
    /\ timestep[1] = MaxCalls /\ hist.acts[1] = MaxCalls
    /\ hist.done[1] > 0 /\ hist.saves > 0
    /\ returned[1] = Ret("load_model", "None")


\* C13: constructing a model whose configuration declares a continuous action
\* in a class that does not allow continuous actions, or a discrete action in
\* a class that does not allow discrete ones, raises an error and returns no
\* model, standalone or as a distributed worker, whose global holder is not
\* built either; the error is that of the graph build unless the
\* configuration is rejected before the graph is built.
C13_UnsupportedActionFails ==
    (/\ status[Target(config)] # "absent"
     /\ \E k \in 1 .. Len(config.actions) :
           \/ config.actions[k] = "continuous" /\ ~config.allows_continuous_actions
           \/ config.actions[k] = "discrete" /\ ~config.allows_discrete_actions)
        => /\ status[Target(config)] = "failed"
           /\ \A m \in Models : status[m] # "ok"
           /\ returned[Target(config)].result # "None"
           /\ (config.distributed \/ (~config.global_model /\ ~config.session))
                 => returned[Target(config)] = Ret("__init__", "TensorForceError")

\* a distributed worker with an optimizer, in a class without discrete
\* actions, whose second action is discrete: the build of its global holder
\* raised
C13_Witness ==
    /\ config.distributed /\ ~config.global_model /\ config.optimizer
    /\ ~config.tf_summary
    /\ config.actions = << "continuous", "discrete" >>
    /\ config.allows_continuous_actions /\ ~config.allows_discrete_actions
    /\ status[1] = "failed" /\ status[GlobalHolder] = "absent"
    /\ returned[1] = Ret("__init__", "TensorForceError")


\* C14: within one worker's combined update step the worker's gradients are
\* applied to the global parameters before the resync overwrites its local
\* parameters: in no execution of the step has the resync run while the
\* application is still to run.
C14_ApplyBeforeResync ==
    \A m \in Workers :
        (phase[m] = "running" /\ "update_local" \notin pending[m]
            /\ "update_local" \in OpsOf(distributed, fetches[m]))
                => "apply" \notin pending[m]

\* C15: constructing a model with summary output configured, from a
\* configuration that is valid otherwise, succeeds and yields an instance with
\* a summary writer, the last-written marker set and per-episode reward
\* recording enabled.
C15_SummaryConstructionSucceeds ==
    (/\ status[Target(config)] # "absent"
     /\ config.tf_summary
     /\ config.distributed \/ (~config.global_model /\ ~config.session)
     /\ config.optimizer \/ ~config.distributed \/ config.global_model
     /\ \A k \in 1 .. Len(config.actions) :
           /\ config.actions[k] = "continuous" => config.allows_continuous_actions
           /\ config.actions[k] = "discrete" => config.allows_discrete_actions)
        => /\ status[Target(config)] = "ok"
           /\ writer[Target(config)]
           /\ last_summary_step[Target(config)] = NegInf
           /\ write_each_reward(Target(config))


\* C16: a worker's update computes the gradient of its own loss at its own
\* local parameters, whatever the global parameters are, and applies the
\* optimizer update of the i-th gradient to the i-th global parameter,
\* whether or not the global parameters changed since the worker resynced.
C16_LocalGradientsAppliedToGlobal ==
    [][\A m \in Workers :
          /\ OpGrad(m) =>
                \A i \in Positions :
                    grads'[m][i] = (variables[m][i] + RewardSum(feed[m])) % PMod
          /\ OpApply(m) =>
                \A i \in Positions :
                    variables'[GlobalHolder][i] =
                        (variables[GlobalHolder][i] + PMod - grads[m][i]) % PMod]_vars

\* a worker completed its step although the other worker changed the global
\* parameters while it ran, and its local parameters differed from the
\* global ones
C16_Witness ==
    \E w \in Workers :
        /\ hist.done[w] = 1 /\ hist.contended[w]
        /\ phase[w] = "idle"
        /\ variables[w] # variables[GlobalHolder]


\* C17: no worker's update step waits for another worker: in every reachable
\* state a worker whose step is running can take its next step whatever the
\* other workers are doing, and under fair scheduling every started update
\* completes.
C17_NoWorkerWaits ==
    /\ [](\A w \in Workers : phase[w] = "running" => ENABLED UpdateStep(w))
    /\ \A w \in Workers : (phase[w] = "running") ~> (phase[w] = "idle")

\* both workers are inside their steps, each with its gradients still to apply
C17_Witness ==
    \A w \in Workers : phase[w] = "running" /\ "apply" \in pending[w]
                       /\ "grad" \notin pending[w]


\* C18: a model's session is assigned at most once: set_session succeeds only
\* while no session is set; on a model that has a session (every standalone
\* model after construction) it fails and leaves the session as it is; and a
\* standalone model runs variable initialization exactly once, at
\* construction.
C18_SessionAssignedOnce ==
    [][\A m \in Models :
          /\ hist'.assigned[m] <= 1
          /\ (status'[m] = "ok" /\ ~distributed') =>
                (session'[m] /\ hist'.initialized[m] = 1)
          /\ set_session(m) =>
                /\ returned'[m].result = "None" <=> ~session[m]
                /\ session[m] => (session' = session /\ hist' = hist)
                /\ hist'.initialized = hist.initialized]_vars

\* set_session was refused on a standalone model, whose constructor had set
\* the session and initialized the variables
C18_Witness ==
    /\ ~distributed /\ status[1] = "ok" /\ session[1]
    /\ returned[1] = Ret("set_session", "AssertionError")
    /\ hist.assigned[1] = 1 /\ hist.initialized[1] = 1


=============================================================================
